---- MODULE Spec2Model ----
(***************************************************************************)
(* Model of BigNum (bignum.h): arbitrary-precision unsigned decimal        *)
(* arithmetic on digit strings.  A std::string is modelled as a sequence   *)
(* of character codes (ASCII), most-significant digit first; the C++       *)
(* 0-based index i is the TLA+ index i + 1.                                *)
(***************************************************************************)
EXTENDS Integers, Sequences, FiniteSets, TLC

(* ------------------------------ bounds -------------------------------- *)

\* longest digit string drawn as the first operand
MaxLen == 2
\* largest value of the second operand of add/multiply/compare
MaxArgVal == 99
\* largest base value and exponent value power() is called with
MaxPowBase == 6
MaxExp == 10
\* largest argument factorial() is called with
MaxFact == 8
\* largest sigfigs scino() is called with
MaxSig == 6
\* number of successive decrement() calls on one value
MaxDecr == 3
\* length of the one long operand that gives scino a two-digit exponent
LongLen == 11

(* ------------------------- character constants ------------------------ *)

CharZero == 48
CharOne == 49
CharNine == 57
CharDot == 46
CharE == 69
DefaultSigfigs == 5

DigitChars == CharZero .. CharNine

Str0 == <<CharZero>>
Str1 == <<CharOne>>

\* all digit strings of length 0..k (canonical or not, the empty one included)
DigitStrings(k) == UNION {[1 .. l -> DigitChars] : l \in 0 .. k}

\* "1234567890123..." : a canonical digit string of LongLen digits
LongValue == [i \in 1 .. LongLen |-> CharZero + (i % 10)]

(* ----------------------- digit <-> character -------------------------- *)

\* a local variable: F applied to the value of v, which is computed once
WithLocal(v, F(_)) == CHOOSE r \in {F(w) : w \in {v}} : TRUE

val(c) == c - CharZero

unval(k) == k + CharZero

(* ---------------- vocabulary of the claims (not code) ----------------- *)

\* canonical form: non-empty, no leading zero except the single digit "0"
IsCanonical(s) == Len(s) >= 1 /\ (s[1] = CharZero => Len(s) = 1)

\* the integer a digit string denotes (the empty string denotes 0)
RECURSIVE NumVal(_)
NumVal(s) ==
    IF s = <<>> THEN 0
    ELSE 10 * NumVal(SubSeq(s, 1, Len(s) - 1)) + (s[Len(s)] - CharZero)

\* the second operands: every digit string (canonical or not) up to MaxArgVal
ArgStrings == {s \in DigitStrings(MaxLen) : NumVal(s) <= MaxArgVal}

\* the first operands
Operands == DigitStrings(MaxLen) \cup {LongValue}

(* ------------------------------ compare ------------------------------- *)

\* variant: the digits are scanned from the least-significant end
RECURSIVE compareLoopFromEnd(_, _, _)
compareLoopFromEnd(x, y, i) ==
    IF i < Len(x) THEN
        IF val(x[Len(x) - i]) > val(y[Len(x) - i]) THEN 1
        ELSE IF val(x[Len(x) - i]) < val(y[Len(x) - i]) THEN -1
        ELSE compareLoopFromEnd(x, y, i + 1)
    ELSE 0

RECURSIVE compareLoop(_, _, _)
compareLoop(x, y, i) ==
    IF i < Len(x) THEN
        IF val(x[i + 1]) > val(y[i + 1]) THEN 1
        ELSE IF val(x[i + 1]) < val(y[i + 1]) THEN -1
        ELSE compareLoop(x, y, i + 1)
    ELSE 0

compare(x, y) ==
    IF Len(x) > Len(y) THEN 1
    ELSE IF Len(x) < Len(y) THEN -1
    ELSE compareLoop(x, y, 0)

(* -------------------------------- add --------------------------------- *)

\* variant: the loop stops when both operands are exhausted, carry or not
RECURSIVE addLoopNoFinalCarry(_, _, _, _, _, _)
addLoopNoFinalCarry(x, y, xind, yind, drem, sum) ==
    IF xind >= 0 \/ yind >= 0 THEN
        WithLocal(drem + (IF xind >= 0 THEN val(x[xind + 1]) ELSE 0)
                   + (IF yind >= 0 THEN val(y[yind + 1]) ELSE 0),
              LAMBDA d0 :
                LET dsum == IF d0 >= 10 THEN d0 - 10 ELSE d0
                    carry == IF d0 >= 10 THEN 1 ELSE 0
                IN  addLoopNoFinalCarry(x, y, xind - 1, yind - 1, carry,
                            <<unval(dsum)>> \o sum))
    ELSE sum

RECURSIVE addLoop(_, _, _, _, _, _)
addLoop(x, y, xind, yind, drem, sum) ==
    IF xind >= 0 \/ yind >= 0 \/ drem = 1 THEN
        WithLocal(drem + (IF xind >= 0 THEN val(x[xind + 1]) ELSE 0)
                   + (IF yind >= 0 THEN val(y[yind + 1]) ELSE 0),
              LAMBDA d0 :
                LET dsum == IF d0 >= 10 THEN d0 - 10 ELSE d0
                    carry == IF d0 >= 10 THEN 1 ELSE 0
                IN  addLoop(x, y, xind - 1, yind - 1, carry,
                            <<unval(dsum)>> \o sum))
    ELSE sum

add(m, n) ==
    LET x == IF Len(m) >= Len(n) THEN m ELSE n
        y == IF Len(m) >= Len(n) THEN n ELSE m
    IN  addLoop(x, y, Len(x) - 1, Len(y) - 1, 0, <<>>)

(* ------------------------------ multiply ------------------------------ *)

\* variant: no positional shift
zeroFillNone(i, zeroes, dtotal) == dtotal

\* for (i = 0; i < zeroes; i++) dtotal = '0' + dtotal
RECURSIVE zeroFill(_, _, _)
zeroFill(i, zeroes, dtotal) ==
    IF i < zeroes THEN zeroFill(i + 1, zeroes, <<CharZero>> \o dtotal)
    ELSE dtotal

\* variant: the carry out of the last digit product is dropped
RECURSIVE digitRowNoCarryOut(_, _, _, _, _)
digitRowNoCarryOut(x, yd, xind, drem, dtotal) ==
    IF xind >= 0 THEN
        WithLocal(val(x[xind + 1]) * yd + drem,
              LAMBDA d0 :
                LET carry == IF d0 >= 10 THEN d0 \div 10 ELSE 0
                    dprod == IF d0 >= 10 THEN d0 - carry * 10 ELSE d0
                IN  digitRowNoCarryOut(x, yd, xind - 1, carry,
                             <<unval(dprod)>> \o dtotal))
    ELSE dtotal

\* the inner loop over x for one digit yd of y, then the final carry digit
RECURSIVE digitRow(_, _, _, _, _)
digitRow(x, yd, xind, drem, dtotal) ==
    IF xind >= 0 THEN
        WithLocal(val(x[xind + 1]) * yd + drem,
              LAMBDA d0 :
                LET carry == IF d0 >= 10 THEN d0 \div 10 ELSE 0
                    dprod == IF d0 >= 10 THEN d0 - carry * 10 ELSE d0
                IN  digitRow(x, yd, xind - 1, carry,
                             <<unval(dprod)>> \o dtotal))
    ELSE IF drem > 0 THEN <<unval(drem)>> \o dtotal
    ELSE dtotal

RECURSIVE multiplyLoop(_, _, _, _, _)
multiplyLoop(x, y, yind, zeroes, product) ==
    IF yind >= 0 THEN
        WithLocal(digitRow(x, val(y[yind + 1]), Len(x) - 1, 0,
                       zeroFill(0, zeroes, <<>>)),
              LAMBDA dtotal :
                WithLocal(add(product, dtotal),
                      LAMBDA sum : multiplyLoop(x, y, yind - 1, zeroes + 1, sum)))
    ELSE product

\* variant: only the first operand is tested against "0"
multiplyZeroTestFirstOnly(m, n) ==
    IF m = Str0 THEN Str0
    ELSE LET x == IF Len(m) >= Len(n) THEN m ELSE n
             y == IF Len(m) >= Len(n) THEN n ELSE m
         IN  multiplyLoop(x, y, Len(y) - 1, 0, Str0)

multiply(m, n) ==
    IF m = Str0 \/ n = Str0 THEN Str0
    ELSE LET x == IF Len(m) >= Len(n) THEN m ELSE n
             y == IF Len(m) >= Len(n) THEN n ELSE m
         IN  multiplyLoop(x, y, Len(y) - 1, 0, Str0)

(* ------------------------------ decrement ----------------------------- *)

\* variant: no early exit on a leading '1', the borrow is absorbed as usual
RECURSIVE decrementLoopNoShrink(_, _, _, _)
decrementLoopNoShrink(n, i, decr, res) ==
    IF i >= 0 THEN
        IF decr THEN
            IF n[i + 1] = CharZero
            THEN decrementLoopNoShrink(n, i - 1, TRUE, <<CharNine>> \o res)
            ELSE decrementLoopNoShrink(n, i - 1, FALSE,
                                       <<unval(val(n[i + 1]) - 1)>> \o res)
        ELSE decrementLoopNoShrink(n, i - 1, FALSE, <<n[i + 1]>> \o res)
    ELSE res

RECURSIVE decrementLoop(_, _, _, _)
decrementLoop(n, i, decr, res) ==
    IF i >= 0 THEN
        IF decr THEN
            IF i = 0 /\ n[i + 1] = CharOne /\ Len(n) > 1 THEN res
            ELSE IF n[i + 1] = CharZero
                 THEN decrementLoop(n, i - 1, TRUE, <<CharNine>> \o res)
                 ELSE decrementLoop(n, i - 1, FALSE,
                                    <<unval(val(n[i + 1]) - 1)>> \o res)
        ELSE decrementLoop(n, i - 1, FALSE, <<n[i + 1]>> \o res)
    ELSE res

decrement(n) == decrementLoop(n, Len(n) - 1, TRUE, <<>>)

(* -------------------------------- scino ------------------------------- *)

\* res << n.digits.length()-1 : the stream's decimal rendering of an unsigned
RECURSIVE StreamUnsigned(_)
StreamUnsigned(k) ==
    IF k < 10 THEN <<CharZero + k>>
    ELSE StreamUnsigned(k \div 10) \o <<CharZero + (k % 10)>>

\* variant: the padding starts one position early
RECURSIVE scinoLoopPadEarly(_, _, _, _)
scinoLoopPadEarly(n, sigfigs, i, res) ==
    IF i < sigfigs THEN
        scinoLoopPadEarly(n, sigfigs, i + 1,
                  res \o <<IF i >= Len(n) - 1 THEN CharZero ELSE n[i + 1]>>)
    ELSE res

RECURSIVE scinoLoop(_, _, _, _)
scinoLoop(n, sigfigs, i, res) ==
    IF i < sigfigs THEN
        scinoLoop(n, sigfigs, i + 1,
                  res \o <<IF i > Len(n) - 1 THEN CharZero ELSE n[i + 1]>>)
    ELSE res

\* for a non-empty n; on an empty string length()-1 wraps around and the
\* loop reads past the end, so DoScino and DoScinoDefault require n # <<>>
scino(n, sigfigs) ==
    LET lead == <<n[1]>>
        mant == IF sigfigs > 1 THEN scinoLoop(n, sigfigs, 1, lead \o <<CharDot>>)
                ELSE lead
    IN  mant \o <<CharE>> \o StreamUnsigned(Len(n) - 1)

scinoDefault(n) == scino(n, DefaultSigfigs)

(* ---------------------------- state machine --------------------------- *)

VARIABLES
    n,        \* the first operand of the call
    pc,       \* "idle", "decr", "power", "fact", "fact_ret", "done"
    op,       \* the function called ("none" before the call)
    arg,      \* the second operand (add, multiply, compare, power)
    sigfigs,  \* scino's sigfigs
    out,      \* the returned string
    cmp,      \* the int compare returned
    prev,     \* the argument of the latest decrement call
    decrs,    \* number of decrement calls so far
    pp,       \* power: the local p
    pres,     \* power: the local res
    iters,    \* power: loop iterations executed
    fn,       \* factorial: the argument of the innermost active call
    stack,    \* factorial: arguments of the calls waiting for a recursive call
    ret       \* factorial: value returned by the latest returned call

vars == <<n, pc, op, arg, sigfigs, out, cmp, prev, decrs, pp, pres, iters,
          fn, stack, ret>>

Init ==
    /\ n \in Operands
    /\ pc = "idle"
    /\ op = "none"
    /\ arg = <<>>
    /\ sigfigs = 0
    /\ out = <<>>
    /\ cmp = 0
    /\ prev = <<>>
    /\ decrs = 0
    /\ pp = <<>>
    /\ pres = <<>>
    /\ iters = 0
    /\ fn = <<>>
    /\ stack = <<>>
    /\ ret = <<>>

\* the arithmetic calls are made on the operands of bounded length
Short == Len(n) <= MaxLen

DoCompare ==
    /\ pc = "idle" /\ Short
    /\ \E y \in ArgStrings :
        /\ cmp' = compare(n, y)
        /\ arg' = y /\ op' = "compare" /\ pc' = "done"
    /\ UNCHANGED <<n, sigfigs, out, prev, decrs, pp, pres, iters, fn, stack, ret>>

DoAdd ==
    /\ pc = "idle" /\ Short
    /\ \E y \in ArgStrings :
        /\ out' = add(n, y)
        /\ arg' = y /\ op' = "add" /\ pc' = "done"
    /\ UNCHANGED <<n, sigfigs, cmp, prev, decrs, pp, pres, iters, fn, stack, ret>>

DoMultiply ==
    /\ pc = "idle" /\ Short
    /\ \E y \in ArgStrings :
        /\ out' = multiply(n, y)
        /\ arg' = y /\ op' = "multiply" /\ pc' = "done"
    /\ UNCHANGED <<n, sigfigs, cmp, prev, decrs, pp, pres, iters, fn, stack, ret>>

\* decrement(n), then decrement of the value it returned, and so on
DoDecrement ==
    /\ pc \in {"idle", "decr"} /\ Short
    /\ decrs < MaxDecr
    /\ prev' = (IF pc = "idle" THEN n ELSE out)
    /\ out' = decrement(prev')
    /\ decrs' = decrs + 1
    /\ op' = "decrement" /\ pc' = "decr"
    /\ UNCHANGED <<n, arg, sigfigs, cmp, pp, pres, iters, fn, stack, ret>>

DoScino ==
    /\ pc = "idle" /\ n # <<>>
    /\ \E s \in -1 .. MaxSig :
        /\ out' = scino(n, s)
        /\ sigfigs' = s
    /\ op' = "scino" /\ pc' = "done"
    /\ UNCHANGED <<n, arg, cmp, prev, decrs, pp, pres, iters, fn, stack, ret>>

DoScinoDefault ==
    /\ pc = "idle" /\ n # <<>>
    /\ out' = scinoDefault(n)
    /\ op' = "scino1" /\ pc' = "done"
    /\ UNCHANGED <<n, arg, sigfigs, cmp, prev, decrs, pp, pres, iters, fn, stack, ret>>

\* variant: the loop runs until p is "1"
PowerContinuesUntilOne(p) == p # Str1

\* while (p.digits != "0")
PowerContinues(p) == p # Str0

\* variant: only "1" ends the recursion
FactorialRecursesButOnOne(f) == f # Str1

\* if (n.digits != "0" && n.digits != "1")
FactorialRecurses(f) == f # Str0 /\ f # Str1

\* power(n, e): Num res("1")
PowerCall ==
    /\ pc = "idle" /\ Short
    /\ NumVal(n) <= MaxPowBase
    /\ \E e \in ArgStrings :
        /\ IsCanonical(e) /\ NumVal(e) <= MaxExp
        /\ pp' = e /\ arg' = e
    /\ pres' = Str1 /\ iters' = 0
    /\ op' = "power" /\ pc' = "power"
    /\ UNCHANGED <<n, sigfigs, out, cmp, prev, decrs, fn, stack, ret>>

\* one pass of while (p.digits != "0")
PowerLoop ==
    /\ pc = "power" /\ PowerContinues(pp)
    /\ pres' = multiply(n, pres)
    /\ pp' = decrement(pp)
    /\ iters' = iters + 1
    /\ UNCHANGED <<n, pc, op, arg, sigfigs, out, cmp, prev, decrs, fn, stack, ret>>

PowerReturn ==
    /\ pc = "power" /\ ~PowerContinues(pp)
    /\ out' = pres /\ pc' = "done"
    /\ UNCHANGED <<n, op, arg, sigfigs, cmp, prev, decrs, pp, pres, iters,
                   fn, stack, ret>>

FactorialCall ==
    /\ pc = "idle" /\ Short
    /\ IsCanonical(n) /\ NumVal(n) <= MaxFact
    /\ fn' = n /\ stack' = <<>> /\ op' = "factorial" /\ pc' = "fact"
    /\ UNCHANGED <<n, arg, sigfigs, out, cmp, prev, decrs, pp, pres, iters, ret>>

\* n.digits != "0" && n.digits != "1": call factorial(decrement(n))
FactorialRecurse ==
    /\ pc = "fact" /\ FactorialRecurses(fn)
    /\ stack' = Append(stack, fn)
    /\ fn' = decrement(fn)
    /\ UNCHANGED <<n, pc, op, arg, sigfigs, out, cmp, prev, decrs, pp, pres,
                   iters, ret>>

\* otherwise return Num("1")
FactorialBase ==
    /\ pc = "fact" /\ ~FactorialRecurses(fn)
    /\ ret' = Str1 /\ pc' = "fact_ret"
    /\ UNCHANGED <<n, op, arg, sigfigs, out, cmp, prev, decrs, pp, pres, iters,
                   fn, stack>>

\* a waiting call returns multiply(n, <value of the recursive call>)
FactorialUnwind ==
    /\ pc = "fact_ret" /\ stack # <<>>
    /\ ret' = multiply(stack[Len(stack)], ret)
    /\ stack' = SubSeq(stack, 1, Len(stack) - 1)
    /\ UNCHANGED <<n, pc, op, arg, sigfigs, out, cmp, prev, decrs, pp, pres,
                   iters, fn>>

FactorialDone ==
    /\ pc = "fact_ret" /\ stack = <<>>
    /\ out' = ret /\ pc' = "done"
    /\ UNCHANGED <<n, op, arg, sigfigs, cmp, prev, decrs, pp, pres, iters,
                   fn, stack, ret>>

Next ==
    \/ DoCompare
    \/ DoAdd
    \/ DoMultiply
    \/ DoDecrement
    \/ DoScino
    \/ DoScinoDefault
    \/ PowerCall
    \/ PowerLoop
    \/ PowerReturn
    \/ FactorialCall
    \/ FactorialRecurse
    \/ FactorialBase
    \/ FactorialUnwind
    \/ FactorialDone

Spec == Init /\ [][Next]_vars

\* power and factorial alone; a call that has started keeps executing
DerivedNext ==
    \/ PowerCall
    \/ PowerLoop
    \/ PowerReturn
    \/ FactorialCall
    \/ FactorialRecurse
    \/ FactorialBase
    \/ FactorialUnwind
    \/ FactorialDone

DerivedSpec == Init /\ [][DerivedNext]_vars /\ WF_vars(DerivedNext)

(* ------------------------------- claims ------------------------------- *)

\* the digit string written with the digits ds, e.g. D(<<1, 2>>) is "12"
D(ds) == [i \in 1 .. Len(ds) |-> CharZero + ds[i]]

Max(a, b) == IF a >= b THEN a ELSE b

RECURSIVE IntPow(_, _)
IntPow(b, e) == IF e = 0 THEN 1 ELSE b * IntPow(b, e - 1)

RECURSIVE Fact(_)
Fact(k) == IF k <= 1 THEN 1 ELSE k * Fact(k - 1)

AllDigits(s) == \A i \in 1 .. Len(s) : s[i] \in DigitChars

\* C1: for canonical a and b, multiply(a, b) is the canonical digit string of
\* the product a * b; multiply(a, "0") is "0" and multiply(a, "1") is a.
MultiplyIsProduct ==
    (op = "multiply" /\ IsCanonical(n) /\ IsCanonical(arg)) =>
        /\ IsCanonical(out) /\ AllDigits(out)
        /\ NumVal(out) = NumVal(n) * NumVal(arg)
        /\ (arg = Str0 => out = Str0)
        /\ (arg = Str1 => out = n)

\* a two-row product with carries in the rows and in their sum: 99 * 99 = 9801
MultiplyIsProductWitness ==
    op = "multiply" /\ n = D(<<9, 9>>) /\ arg = D(<<9, 9>>) /\ out = D(<<9, 8, 0, 1>>)

\* C2: for canonical a and b, add(a, b) is the digit string of a + b, of
\* max(len(a), len(b)) digits, or one more exactly when a carry leaves the
\* most-significant position; no leading zero; add(a, "0") is a.
AddIsSum ==
    (op = "add" /\ IsCanonical(n) /\ IsCanonical(arg)) =>
        LET w == Max(Len(n), Len(arg))
            carryOut == NumVal(n) + NumVal(arg) >= IntPow(10, w)
        IN  /\ AllDigits(out)
            /\ NumVal(out) = NumVal(n) + NumVal(arg)
            /\ Len(out) = IF carryOut THEN w + 1 ELSE w
            /\ IsCanonical(out)
            /\ (arg = Str0 => out = n)

\* operands of unequal length and a carry out of the top: 95 + 7 = 102
AddIsSumWitness ==
    op = "add" /\ n = D(<<9, 5>>) /\ arg = D(<<7>>) /\ out = D(<<1, 0, 2>>)

\* C7: for canonical a and b, compare(a, b) is 1 iff a > b, -1 iff a < b and
\* 0 iff a and b are the same digit string; compare(a, b) = -compare(b, a).
CompareIsOrder ==
    (op = "compare" /\ IsCanonical(n) /\ IsCanonical(arg)) =>
        /\ cmp \in {-1, 0, 1}
        /\ (cmp = 1 <=> NumVal(n) > NumVal(arg))
        /\ (cmp = -1 <=> NumVal(n) < NumVal(arg))
        /\ (cmp = 0 <=> n = arg)
        /\ cmp = 0 - compare(arg, n)

\* equal length, first digits differ one way and last digits the other
CompareIsOrderWitness ==
    op = "compare" /\ n = D(<<1, 9>>) /\ arg = D(<<2, 1>>) /\ cmp = -1

\* C8: add and multiply return the same digit string with the operands
\* swapped, for all digit strings (canonical or not, of any lengths).
Commutative ==
    /\ (op = "add" => out = add(arg, n))
    /\ (op = "multiply" => out = multiply(arg, n))

\* two different non-canonical operands of equal length
CommutativeWitness ==
    op = "multiply" /\ n = D(<<0, 9>>) /\ arg = D(<<9, 0>>) /\ out = D(<<8, 1, 0>>)

\* C3: decrement saturates at zero: decrement("0") is "0", repeated decrements
\* of a canonical value never yield a value above the start, and once "0" is
\* reached every further decrement returns "0".
DecrementSaturates ==
    (op = "decrement" /\ IsCanonical(n)) =>
        /\ NumVal(out) <= NumVal(n)
        /\ (prev = Str0 => out = Str0)

IsPowerOfTen(s) == s[1] = CharOne /\ \A i \in 2 .. Len(s) : s[i] = CharZero

\* C4: for canonical n > 0, decrement(n) is the canonical digit string of
\* n - 1; a power of ten of more than one digit loses one digit (all nines),
\* every other value keeps its digit count.
DecrementPositive ==
    (op = "decrement" /\ IsCanonical(prev) /\ NumVal(prev) > 0) =>
        /\ IsCanonical(out) /\ AllDigits(out)
        /\ NumVal(out) = NumVal(prev) - 1
        /\ IF IsPowerOfTen(prev) /\ Len(prev) > 1
           THEN /\ Len(out) = Len(prev) - 1
                /\ \A i \in 1 .. Len(out) : out[i] = CharNine
           ELSE Len(out) = Len(prev)

\* the power-of-ten boundary: decrement("10") is "9"
DecrementPositiveWitness ==
    op = "decrement" /\ prev = D(<<1, 0>>) /\ out = D(<<9>>)

\* C9 as stated: for canonical a of n digits and b of m digits, multiply(a, b)
\* has n + m or n + m - 1 digits.
ProductLength ==
    (op = "multiply" /\ IsCanonical(n) /\ IsCanonical(arg)) =>
        Len(out) \in {Len(n) + Len(arg), Len(n) + Len(arg) - 1}

\* C9 amended: the same for canonical a and b that are both non-zero.
ProductLengthNonZero ==
    (op = "multiply" /\ IsCanonical(n) /\ IsCanonical(arg)
        /\ n # Str0 /\ arg # Str0) =>
        Len(out) \in {Len(n) + Len(arg), Len(n) + Len(arg) - 1}

\* both lengths occur: 10 * 10 = 100 (n + m - 1 digits) ...
ProductLengthNonZeroWitness ==
    op = "multiply" /\ n = D(<<1, 0>>) /\ arg = D(<<1, 0>>) /\ Len(out) = 3

\* the format scino's contract describes, for the value v and s >= 1
ScinoFormat(v, s, o) ==
    LET expAt == IF s > 1 THEN s + 2 ELSE 2
        expo == SubSeq(o, expAt + 1, Len(o))
    IN  /\ Len(o) > expAt
        /\ o[1] = v[1]
        /\ s > 1 => /\ o[2] = CharDot
                    /\ \A i \in 2 .. s :
                          o[i + 1] = IF i <= Len(v) THEN v[i] ELSE CharZero
        /\ s = 1 => \A i \in 1 .. Len(o) : o[i] # CharDot
        /\ o[expAt] = CharE
        /\ AllDigits(expo) /\ IsCanonical(expo)
        /\ NumVal(expo) = Len(v) - 1

\* C10: for non-empty canonical v and s >= 1, scino(v, s) is the first digit,
\* then (only when s > 1) '.' and exactly s - 1 characters, digits 2..s of v
\* padded with '0', then 'E' and len(v) - 1 in decimal; scino(v) uses s = 5.
ScinoIsFormat ==
    /\ (op = "scino" /\ IsCanonical(n) /\ sigfigs >= 1) =>
            ScinoFormat(n, sigfigs, out)
    /\ (op = "scino1" /\ IsCanonical(n)) => ScinoFormat(n, 5, out)

\* padding past the end of v: scino("12", 4) is "1.200E1"
ScinoIsFormatWitness ==
    /\ op = "scino" /\ n = D(<<1, 2>>) /\ sigfigs = 4
    /\ out = <<CharOne, CharDot, CharZero + 2, CharZero, CharZero, CharE, CharOne>>

PowerInv ==
    (op = "power" /\ IsCanonical(n)) =>
        /\ pc = "power" =>
              /\ IsCanonical(pp)
              /\ NumVal(pp) + iters = NumVal(arg)
              /\ NumVal(pres) = IntPow(NumVal(n), iters)
        /\ pc = "done" =>
              /\ iters = NumVal(arg)
              /\ IsCanonical(out) /\ AllDigits(out)
              /\ NumVal(out) = IntPow(NumVal(n), NumVal(arg))
              /\ (arg = Str0 => iters = 0 /\ out = Str1)

\* C5: for canonical base and exponent, power terminates and returns the
\* canonical digit string of base^exponent after exactly value(exponent)
\* iterations; with exponent "0" the loop never runs and the result is "1".
PowerComputes ==
    /\ []PowerInv
    /\ (op = "power" /\ pc = "power") ~> (op = "power" /\ pc = "done")

\* power("2", "10") is "1024" after ten iterations (the exponent passes "10" -> "9")
PowerComputesWitness ==
    /\ op = "power" /\ pc = "done" /\ n = D(<<2>>) /\ arg = D(<<1, 0>>)
    /\ iters = 10 /\ out = D(<<1, 0, 2, 4>>)

FactorialInv ==
    op = "factorial" =>
        /\ Len(stack) <= NumVal(n)
        /\ pc = "fact_ret" =>
              /\ IsCanonical(ret)
              /\ NumVal(ret) = Fact(NumVal(n) - Len(stack))
        /\ pc = "done" =>
              /\ IsCanonical(out) /\ AllDigits(out)
              /\ NumVal(out) = Fact(NumVal(n))
              /\ (NumVal(n) <= 1 => out = Str1)

\* C6: for canonical n, factorial(n) terminates with recursion depth bounded
\* by the value of n and returns the canonical digit string of n!;
\* factorial("0") and factorial("1") are "1", and each waiting call returns
\* n times the factorial of n - 1.
FactorialComputes ==
    /\ []FactorialInv
    /\ (op = "factorial" /\ pc = "fact") ~> (op = "factorial" /\ pc = "done")

\* factorial("5") is "120"
FactorialComputesWitness ==
    op = "factorial" /\ pc = "done" /\ n = D(<<5>>) /\ out = D(<<1, 2, 0>>)

====
